---------------------------- MODULE Spec2Model ----------------------------
(***************************************************************************)
(* A model of freckle-project-indicators: the command-line program that    *)
(* lists the projects of a Freckle account, fetches their entries,         *)
(* aggregates them per participant and per period, prints the report and   *)
(* optionally posts the gauges to Librato.                                 *)
(*                                                                         *)
(* The program modelled is the one with the --period and --librato flags   *)
(* (src/unnamed/part_000, the Go source that follows the README text).     *)
(*                                                                         *)
(* Strings are sequences of tokens: a user-controlled string is a sequence *)
(* of one-character tokens, a literal of the source is one token.  Amounts *)
(* (float64 in the source) are integers.                                   *)
(***************************************************************************)
EXTENDS Integers, Sequences, FiniteSets, TLC

VARIABLES
    pc,            \* position of main: start, list, select, report, post, done, exited; lib for a library call
    env,           \* what the run is started with: flags, arguments, environment, the API's answers
    stopWhenZero,  \* main's counter of filter names still to match
    idx,           \* position of the running loop in the listing / in projects
    projects,      \* main's []ProjectKpi
    out,           \* report lines printed to standard output
    msgs,          \* error and usage messages printed
    metrics,       \* metrics.Gauges
    calls,         \* requests issued to the Freckle API
    posts,         \* calls of libratoClient.PostMetrics
    exitCode,      \* the exit status, -1 while running
    call,          \* library call under test: the function and its arguments
    ret            \* its result

vars == <<pc, env, stopWhenZero, idx, projects, out, msgs, metrics, calls, posts, exitCode, call, ret>>

(***************************************************************************)
(* Bounds.                                                                 *)
(***************************************************************************)
MaxEntries == 3
MaxInvoices == 3
MaxPeriodEntries == 2
MaxJoinEntries == 2
MaxJoinInvoices == 1
MaxNameLen == 2
MaxFilter == 3
MaxListed == 3
MaxArgs == 1
MaxFixtures == 2
MaxYearSpan == 1
MaxSanitizeLen == 3

(***************************************************************************)
(* Generic helpers.                                                        *)
(***************************************************************************)
SeqsUpTo(S, n) == UNION {[1..k -> S] : k \in 0..n}

Range(s) == {s[i] : i \in DOMAIN s}

PermFns(n) == {f \in [1..n -> 1..n] : \A i, j \in 1..n : i # j => f[i] # f[j]}

(***************************************************************************)
(* Constants of the source.                                                *)
(***************************************************************************)
libratoBaseName == "FreckleAPI"
libratoCatProjects == "projects"
libratoCatParticipants == "participants"
libratoCatYearlyParticipants == "yearlyParticipants"
exitCodeOk == 0
exitCodeNotOk == 1

(***************************************************************************)
(* strings.Replace(s, old, new, -1) for a one-character old; new is a      *)
(* string (<<>> or one token).                                             *)
(***************************************************************************)
RECURSIVE Replace(_, _, _)
Replace(s, old, new) ==
    IF s = <<>> THEN <<>>
    ELSE (IF Head(s) = old THEN new ELSE <<Head(s)>>) \o Replace(Tail(s), old, new)

\* faulty variant: the backslash is not replaced
sanitizeMetricName_KeepsBackslash(s) ==
    LET s1 == Replace(s, " ", <<"-">>)
        s2 == Replace(s1, "/", <<"-">>)
        s4 == Replace(s2, "#", <<>>)
        s5 == Replace(s4, "(", <<>>)
    IN  Replace(s5, ")", <<>>)

sanitizeMetricName(s) ==
    LET s1 == Replace(s, " ", <<"-">>)
        s2 == Replace(s1, "/", <<"-">>)
        s3 == Replace(s2, "\\", <<"-">>)
        s4 == Replace(s3, "#", <<>>)
        s5 == Replace(s4, "(", <<>>)
    IN  Replace(s5, ")", <<>>)

(***************************************************************************)
(* fmt.Sprintf("%d") and ("%02d") of a natural number, and strconv.Atoi of *)
(* a string of digits.                                                     *)
(***************************************************************************)
DigitTokens == <<"0", "1", "2", "3", "4", "5", "6", "7", "8", "9">>

IsDigit(c) == \E d \in 1..10 : DigitTokens[d] = c

DigitVal(c) == (CHOOSE d \in 1..10 : DigitTokens[d] = c) - 1

RECURSIVE FmtD(_)
FmtD(n) == IF n < 10 THEN <<DigitTokens[n + 1]>> ELSE FmtD(n \div 10) \o <<DigitTokens[(n % 10) + 1]>>

\* faulty variant: the month is formatted with %d, without zero padding
Fmt02D_NoPad(n) == FmtD(n)

Fmt02D(n) == IF n < 10 THEN <<"0">> \o FmtD(n) ELSE FmtD(n)

RECURSIVE AtoiAcc(_, _)
AtoiAcc(s, acc) == IF s = <<>> THEN acc ELSE AtoiAcc(Tail(s), acc * 10 + DigitVal(Head(s)))

Atoi(s) == AtoiAcc(s, 0)

(***************************************************************************)
(* time.Time values are [y, m, d] (midnight UTC).  time.Parse with the     *)
(* layout "2006-01-02": four digits, "-", two digits, "-", two digits, the *)
(* month in 1..12 and the day in the month's range.                        *)
(***************************************************************************)
IsLeap(y) == (y % 4 = 0 /\ y % 100 # 0) \/ y % 400 = 0

DaysIn(y, m) ==
    IF m = 2 THEN (IF IsLeap(y) THEN 29 ELSE 28)
    ELSE IF m \in {4, 6, 9, 11} THEN 30 ELSE 31

ZeroTime == [y |-> 1, m |-> 1, d |-> 1]

TimeParse(s) ==
    IF /\ Len(s) = 10
       /\ s[5] = "-" /\ s[8] = "-"
       /\ \A i \in {1, 2, 3, 4, 6, 7, 9, 10} : IsDigit(s[i])
    THEN LET y == Atoi(SubSeq(s, 1, 4))
             m == Atoi(SubSeq(s, 6, 7))
             d == Atoi(SubSeq(s, 9, 10))
         IN  IF m \in 1..12 /\ d \in 1..DaysIn(y, m)
             THEN [err |-> FALSE, t |-> [y |-> y, m |-> m, d |-> d]]
             ELSE [err |-> TRUE, t |-> ZeroTime]
    ELSE [err |-> TRUE, t |-> ZeroTime]

(***************************************************************************)
(* TimeAggregater: MonthAgg and YearAgg.                                   *)
(***************************************************************************)
MonthAgg_GetInt(t) == Atoi(FmtD(t.y) \o Fmt02D(t.m))

MonthAgg_GetString(t) == FmtD(t.y) \o <<"-">> \o Fmt02D(t.m)

MonthAgg_GetPeriod(t) == [y |-> t.y, m |-> t.m, d |-> 1]

YearAgg_GetInt(t) == Atoi(FmtD(t.y))

YearAgg_GetString(t) == FmtD(t.y)

YearAgg_GetPeriod(t) == [y |-> t.y, m |-> 1, d |-> 1]

GetInt(tagg, t) == IF tagg = "MonthAgg" THEN MonthAgg_GetInt(t) ELSE YearAgg_GetInt(t)

GetString(tagg, t) == IF tagg = "MonthAgg" THEN MonthAgg_GetString(t) ELSE YearAgg_GetString(t)

GetPeriod(tagg, t) == IF tagg = "MonthAgg" THEN MonthAgg_GetPeriod(t) ELSE YearAgg_GetPeriod(t)

(***************************************************************************)
(* sort.Sort(sort.Reverse(pks)): the source's Less on two elements, the    *)
(* order sort.Reverse derives from it, and the slices sort.Sort may leave: *)
(* every permutation of s in which no later element is less than an        *)
(* earlier one (the sort is not stable, equal elements land in any order). *)
(***************************************************************************)
ParticipantKpis_Less(a, b) ==
    a.BillableMinutes + a.UnbillableMinutes < b.BillableMinutes + b.UnbillableMinutes

\* faulty variant: the slice is sorted without sort.Reverse
ReverseLess_NotReversed(a, b) == ParticipantKpis_Less(a, b)

ReverseLess(a, b) == ParticipantKpis_Less(b, a)

SortReverse(s) ==
    {[i \in 1..Len(s) |-> s[f[i]]] : f \in
        {g \in PermFns(Len(s)) :
            \A i, j \in 1..Len(s) : i < j => ~ReverseLess(s[g[j]], s[g[i]])}}

(***************************************************************************)
(* sort.Ints(keys).                                                        *)
(***************************************************************************)
\* faulty variant: the keys are left in arrival order
SortInts_ArrivalOrder(keys) == keys

SortInts(keys) ==
    CHOOSE s \in {[i \in 1..Len(keys) |-> keys[f[i]]] : f \in PermFns(Len(keys))} :
        \A i, j \in 1..Len(keys) : i < j => s[i] <= s[j]

(***************************************************************************)
(* A Go map ranged over: its values in any order.                          *)
(***************************************************************************)
RECURSIVE SetOrders(_)
SetOrders(S) ==
    IF S = {} THEN {<<>>}
    ELSE UNION {{<<x>> \o r : r \in SetOrders(S \ {x})} : x \in S}

MapRange(m) == {[i \in 1..Len(ks) |-> m[ks[i]]] : ks \in SetOrders(DOMAIN m)}

MapPut(m, k, v) == [x \in DOMAIN m \cup {k} |-> IF x = k THEN v ELSE m[x]]

(***************************************************************************)
(* GetParticipantKpis.                                                     *)
(***************************************************************************)
\* faulty variant: every entry counts as billable
AddMinutes_AllBillable(pkpi, entry) ==
    [pkpi EXCEPT !.BillableMinutes = @ + entry.Minutes]

AddMinutes(pkpi, entry) ==
    IF entry.Billable
    THEN [pkpi EXCEPT !.BillableMinutes = @ + entry.Minutes]
    ELSE [pkpi EXCEPT !.UnbillableMinutes = @ + entry.Minutes]

NewParticipantKpi(user, billable, unbillable) ==
    [User |-> user, BillableMinutes |-> billable, UnbillableMinutes |-> unbillable]

RECURSIVE ParticipantsMap(_, _)
ParticipantsMap(fes, participantsMap) ==
    IF fes = <<>> THEN participantsMap
    ELSE LET entry == Head(fes)
             user == entry.User
             pkpi == IF user.Id \in DOMAIN participantsMap
                     THEN participantsMap[user.Id]
                     ELSE NewParticipantKpi(user, 0, 0)
         IN  ParticipantsMap(Tail(fes), MapPut(participantsMap, user.Id, AddMinutes(pkpi, entry)))

GetParticipantKpis(fes) ==
    UNION {SortReverse(pks) : pks \in MapRange(ParticipantsMap(fes, <<>>))}

(***************************************************************************)
(* GetInvoiceKpiPerPeriod.  A result is [err, val]; val is <<>> (nil) with *)
(* an error.  GetInt formats digits and parses them back, so its error is  *)
(* always nil and the source's second early return is never taken.         *)
(***************************************************************************)
ZeroInvoicePeriodKpi == [TimeAgg |-> "nil", Period |-> ZeroTime, Amount |-> 0]

\* faulty variant: the amount of a period is overwritten, not accumulated
RECURSIVE InvoiceLoop_Overwrite(_, _, _, _)
InvoiceLoop_Overwrite(tagg, fis, agrregateInvoices, keys) ==
    IF fis = <<>> THEN [err |-> FALSE, agg |-> agrregateInvoices, keys |-> keys]
    ELSE LET invoice == Head(fis)
             parsed == TimeParse(invoice.InvoiceDate)
             key == GetInt(tagg, parsed.t)
             ik2 == [TimeAgg |-> tagg,
                     Period |-> GetPeriod(tagg, parsed.t),
                     Amount |-> invoice.TotalAmount]
         IN  IF parsed.err THEN [err |-> TRUE, agg |-> <<>>, keys |-> <<>>]
             ELSE InvoiceLoop_Overwrite(tagg, Tail(fis), MapPut(agrregateInvoices, key, ik2),
                                        IF key \in DOMAIN agrregateInvoices THEN keys ELSE Append(keys, key))

RECURSIVE InvoiceLoop(_, _, _, _)
InvoiceLoop(tagg, fis, agrregateInvoices, keys) ==
    IF fis = <<>> THEN [err |-> FALSE, agg |-> agrregateInvoices, keys |-> keys]
    ELSE LET invoice == Head(fis)
             parsed == TimeParse(invoice.InvoiceDate)
             key == GetInt(tagg, parsed.t)
             ok == key \in DOMAIN agrregateInvoices
             ik == IF ok THEN agrregateInvoices[key] ELSE ZeroInvoicePeriodKpi
             ik2 == [TimeAgg |-> tagg,
                     Period |-> GetPeriod(tagg, parsed.t),
                     Amount |-> ik.Amount + invoice.TotalAmount]
         IN  IF parsed.err THEN [err |-> TRUE, agg |-> <<>>, keys |-> <<>>]
             ELSE InvoiceLoop(tagg, Tail(fis), MapPut(agrregateInvoices, key, ik2),
                              IF ok THEN keys ELSE Append(keys, key))

GetInvoiceKpiPerPeriod(tagg, fis) ==
    LET r == InvoiceLoop(tagg, fis, <<>>, <<>>)
        sorted == SortInts(r.keys)
    IN  IF r.err THEN [err |-> TRUE, val |-> <<>>]
        ELSE [err |-> FALSE, val |-> [i \in 1..Len(sorted) |-> r.agg[sorted[i]]]]

(***************************************************************************)
(* GetParticipantsPeriodPerPeriod.                                         *)
(***************************************************************************)
ZeroParticipantsPeriod == [TimeAgg |-> "nil", Period |-> ZeroTime, Participants |-> <<>>]

\* faulty variant: the participant is never looked up, every entry is appended
AddToParticipants_AlwaysAppend(participants, entry) ==
    Append(participants,
           NewParticipantKpi(entry.User,
                             IF entry.Billable THEN entry.Minutes ELSE 0,
                             IF entry.Billable THEN 0 ELSE entry.Minutes))

AddToParticipants(participants, entry) ==
    LET found == {i \in DOMAIN participants : participants[i].User.Id = entry.User.Id}
        first == CHOOSE i \in found : \A j \in found : i <= j
    IN  IF found # {}
        THEN [participants EXCEPT ![first] = AddMinutes(@, entry)]
        ELSE Append(participants,
                    NewParticipantKpi(entry.User,
                                      IF entry.Billable THEN entry.Minutes ELSE 0,
                                      IF entry.Billable THEN 0 ELSE entry.Minutes))

\* faulty variant: an entry whose date does not parse is skipped
RECURSIVE ParticipantsLoop_SkipUnparsed(_, _, _)
ParticipantsLoop_SkipUnparsed(tagg, fes, dedupParticipants) ==
    IF fes = <<>> THEN [err |-> FALSE, dedup |-> dedupParticipants]
    ELSE LET entry == Head(fes)
             parsed == TimeParse(entry.Date)
             key == GetInt(tagg, parsed.t)
             pk == IF key \in DOMAIN dedupParticipants
                   THEN dedupParticipants[key] ELSE ZeroParticipantsPeriod
             pk2 == [TimeAgg |-> tagg,
                     Period |-> GetPeriod(tagg, parsed.t),
                     Participants |-> AddToParticipants(pk.Participants, entry)]
         IN  IF parsed.err THEN ParticipantsLoop_SkipUnparsed(tagg, Tail(fes), dedupParticipants)
             ELSE ParticipantsLoop_SkipUnparsed(tagg, Tail(fes), MapPut(dedupParticipants, key, pk2))

RECURSIVE ParticipantsLoop(_, _, _)
ParticipantsLoop(tagg, fes, dedupParticipants) ==
    IF fes = <<>> THEN [err |-> FALSE, dedup |-> dedupParticipants]
    ELSE LET entry == Head(fes)
             parsed == TimeParse(entry.Date)
             key == GetInt(tagg, parsed.t)
             pk == IF key \in DOMAIN dedupParticipants
                   THEN dedupParticipants[key] ELSE ZeroParticipantsPeriod
             pk2 == [TimeAgg |-> tagg,
                     Period |-> GetPeriod(tagg, parsed.t),
                     Participants |-> AddToParticipants(pk.Participants, entry)]
         IN  IF parsed.err THEN [err |-> TRUE, dedup |-> <<>>]
             ELSE ParticipantsLoop(tagg, Tail(fes), MapPut(dedupParticipants, key, pk2))

\* the final loop: every value of the map with its Participants sorted, in map order
RECURSIVE SortedValues(_, _)
SortedValues(keys, dedupParticipants) ==
    IF keys = {} THEN {<<>>}
    ELSE UNION {UNION {{<<[dedupParticipants[k] EXCEPT !.Participants = ps]>> \o rest :
                            rest \in SortedValues(keys \ {k}, dedupParticipants)} :
                       ps \in SortReverse(dedupParticipants[k].Participants)} :
                k \in keys}

GetParticipantsPeriodPerPeriod(tagg, fes) ==
    LET r == ParticipantsLoop(tagg, fes, <<>>)
    IN  IF r.err THEN {[err |-> TRUE, val |-> <<>>]}
        ELSE {[err |-> FALSE, val |-> v] : v \in SortedValues(DOMAIN r.dedup, r.dedup)}

(***************************************************************************)
(* GetProjectKpiPerPeriod.  p is a ProjectKpi.                             *)
(***************************************************************************)
ZeroProjectPeriodKpi ==
    [Name |-> <<>>, TimeAgg |-> "nil", Period |-> ZeroTime,
     Invoice |-> ZeroInvoicePeriodKpi, Participants |-> <<>>]

RECURSIVE MergeInvoices(_, _, _, _, _)
MergeInvoices(tagg, name, invoices, m, keys) ==
    IF invoices = <<>> THEN [m |-> m, keys |-> keys]
    ELSE LET invoice == Head(invoices)
             key == GetInt(invoice.TimeAgg, invoice.Period)
             ok == key \in DOMAIN m
             ppm == IF ok THEN m[key] ELSE ZeroProjectPeriodKpi
             ppm2 == [ppm EXCEPT !.Name = name, !.TimeAgg = tagg,
                                 !.Period = invoice.Period, !.Invoice = invoice]
         IN  MergeInvoices(tagg, name, Tail(invoices), MapPut(m, key, ppm2),
                           IF ok THEN keys ELSE Append(keys, key))

\* faulty variant: an inner join, a period without invoices is dropped
RECURSIVE MergeParticipants_Inner(_, _, _, _, _)
MergeParticipants_Inner(tagg, name, pps, m, keys) ==
    IF pps = <<>> THEN [m |-> m, keys |-> keys]
    ELSE LET participants == Head(pps)
             key == GetInt(participants.TimeAgg, participants.Period)
         IN  IF key \in DOMAIN m
             THEN MergeParticipants_Inner(tagg, name, Tail(pps),
                      MapPut(m, key, [m[key] EXCEPT !.Participants = participants.Participants]), keys)
             ELSE MergeParticipants_Inner(tagg, name, Tail(pps), m, keys)

RECURSIVE MergeParticipants(_, _, _, _, _)
MergeParticipants(tagg, name, pps, m, keys) ==
    IF pps = <<>> THEN [m |-> m, keys |-> keys]
    ELSE LET participants == Head(pps)
             key == GetInt(participants.TimeAgg, participants.Period)
             ok == key \in DOMAIN m
             ppm == IF ok THEN m[key] ELSE ZeroProjectPeriodKpi
             ppm2 == [ppm EXCEPT !.Name = name, !.TimeAgg = tagg,
                                 !.Period = participants.Period,
                                 !.Participants = participants.Participants]
         IN  MergeParticipants(tagg, name, Tail(pps), MapPut(m, key, ppm2),
                               IF ok THEN keys ELSE Append(keys, key))

MergePeriods(tagg, name, invoiceAmonthPerPeriod, participantKpiPerPeriod) ==
    LET a == MergeInvoices(tagg, name, invoiceAmonthPerPeriod, <<>>, <<>>)
        b == MergeParticipants(tagg, name, participantKpiPerPeriod, a.m, a.keys)
        sorted == SortInts(b.keys)
    IN  [i \in 1..Len(sorted) |-> b.m[sorted[i]]]

GetProjectKpiPerPeriod(tagg, p) ==
    LET inv == GetInvoiceKpiPerPeriod(tagg, p.Invoices)
    IN  IF inv.err THEN {[err |-> TRUE, val |-> <<>>]}
        ELSE {IF pp.err THEN [err |-> TRUE, val |-> <<>>]
              ELSE [err |-> FALSE, val |-> MergePeriods(tagg, p.Name, inv.val, pp.val)] :
                 pp \in GetParticipantsPeriodPerPeriod(tagg, p.DetailedEntries)}

GetProjectKpiPerMonth(p) == GetProjectKpiPerPeriod("MonthAgg", p)

GetProjectKpiPerYear(p) == GetProjectKpiPerPeriod("YearAgg", p)

(***************************************************************************)
(* The month-only revision, src/main.go.  Its three aggregation functions  *)
(* compute the key as MonthAgg.GetInt does and store                       *)
(* time.Date(t.Year(), t.Month(), 0, ...) as the Period; time.Date         *)
(* normalises a day of 0 to the last day of the month before.  The records *)
(* of this revision have no Name and no TimeAgg field.                     *)
(***************************************************************************)
TimeDate(y, m, d) ==
    IF d >= 1 THEN [y |-> y, m |-> m, d |-> d]
    ELSE IF m = 1 THEN [y |-> y - 1, m |-> 12, d |-> 31 + d]
    ELSE [y |-> y, m |-> m - 1, d |-> DaysIn(y, m - 1) + d]

MainGo_Key(t) == Atoi(FmtD(t.y) \o Fmt02D(t.m))

\* the year and month String() prints from a stored Period
MainGo_Label(period) == FmtD(period.y) \o <<"-">> \o Fmt02D(period.m)

RECURSIVE MainGo_InvoiceLoop(_, _, _)
MainGo_InvoiceLoop(fis, agrregateInvoices, keys) ==
    IF fis = <<>> THEN [err |-> FALSE, agg |-> agrregateInvoices, keys |-> keys]
    ELSE LET invoice == Head(fis)
             parsed == TimeParse(invoice.InvoiceDate)
             key == MainGo_Key(parsed.t)
             ok == key \in DOMAIN agrregateInvoices
             amount == IF ok THEN agrregateInvoices[key].Amount ELSE 0
             ik2 == [Period |-> TimeDate(parsed.t.y, parsed.t.m, 0),
                     Amount |-> amount + invoice.TotalAmount]
         IN  IF parsed.err THEN [err |-> TRUE, agg |-> <<>>, keys |-> <<>>]
             ELSE MainGo_InvoiceLoop(Tail(fis), MapPut(agrregateInvoices, key, ik2),
                                     IF ok THEN keys ELSE Append(keys, key))

MainGo_GetInvoiceKpiPerMonth(fis) ==
    LET r == MainGo_InvoiceLoop(fis, <<>>, <<>>)
        sorted == SortInts(r.keys)
    IN  IF r.err THEN [err |-> TRUE, val |-> <<>>]
        ELSE [err |-> FALSE, val |-> [i \in 1..Len(sorted) |-> r.agg[sorted[i]]]]

RECURSIVE MainGo_ParticipantsLoop(_, _)
MainGo_ParticipantsLoop(fes, dedupParticipants) ==
    IF fes = <<>> THEN [err |-> FALSE, dedup |-> dedupParticipants]
    ELSE LET entry == Head(fes)
             parsed == TimeParse(entry.Date)
             key == MainGo_Key(parsed.t)
             ps == IF key \in DOMAIN dedupParticipants
                   THEN dedupParticipants[key].Participants ELSE <<>>
             pk2 == [Period |-> TimeDate(parsed.t.y, parsed.t.m, 0),
                     Participants |-> AddToParticipants(ps, entry)]
         IN  IF parsed.err THEN [err |-> TRUE, dedup |-> <<>>]
             ELSE MainGo_ParticipantsLoop(Tail(fes), MapPut(dedupParticipants, key, pk2))

MainGo_GetParticipantsPeriodPerMonth(fes) ==
    LET r == MainGo_ParticipantsLoop(fes, <<>>)
    IN  IF r.err THEN {[err |-> TRUE, val |-> <<>>]}
        ELSE {[err |-> FALSE, val |-> v] : v \in SortedValues(DOMAIN r.dedup, r.dedup)}

MainGo_ZeroProjectPeriodKpi ==
    [Period |-> ZeroTime, Invoice |-> [Period |-> ZeroTime, Amount |-> 0], Participants |-> <<>>]

RECURSIVE MainGo_MergeInvoices(_, _, _)
MainGo_MergeInvoices(invoices, m, keys) ==
    IF invoices = <<>> THEN [m |-> m, keys |-> keys]
    ELSE LET invoice == Head(invoices)
             key == MainGo_Key(invoice.Period)
             ok == key \in DOMAIN m
             ppm == IF ok THEN m[key] ELSE MainGo_ZeroProjectPeriodKpi
             ppm2 == [ppm EXCEPT !.Period = invoice.Period, !.Invoice = invoice]
         IN  MainGo_MergeInvoices(Tail(invoices), MapPut(m, key, ppm2),
                                  IF ok THEN keys ELSE Append(keys, key))

RECURSIVE MainGo_MergeParticipants(_, _, _)
MainGo_MergeParticipants(pps, m, keys) ==
    IF pps = <<>> THEN [m |-> m, keys |-> keys]
    ELSE LET participants == Head(pps)
             key == MainGo_Key(participants.Period)
             ok == key \in DOMAIN m
             ppm == IF ok THEN m[key] ELSE MainGo_ZeroProjectPeriodKpi
             ppm2 == [ppm EXCEPT !.Period = participants.Period,
                                 !.Participants = participants.Participants]
         IN  MainGo_MergeParticipants(Tail(pps), MapPut(m, key, ppm2),
                                      IF ok THEN keys ELSE Append(keys, key))

MainGo_MergePeriods(invoiceAmonthPerMonth, participantKpiPerMonth) ==
    LET a == MainGo_MergeInvoices(invoiceAmonthPerMonth, <<>>, <<>>)
        b == MainGo_MergeParticipants(participantKpiPerMonth, a.m, a.keys)
        sorted == SortInts(b.keys)
    IN  [i \in 1..Len(sorted) |-> b.m[sorted[i]]]

MainGo_GetProjectKpiPerMonth(p) ==
    LET inv == MainGo_GetInvoiceKpiPerMonth(p.Invoices)
    IN  IF inv.err THEN {[err |-> TRUE, val |-> <<>>]}
        ELSE {IF pp.err THEN [err |-> TRUE, val |-> <<>>]
              ELSE [err |-> FALSE, val |-> MainGo_MergePeriods(inv.val, pp.val)] :
                 pp \in MainGo_GetParticipantsPeriodPerMonth(p.DetailedEntries)}

(***************************************************************************)
(* RegisterMetrics of ProjectKpi, ParticipantKpi and ProjectPeriodKpi:     *)
(* the gauges each appends to m.Gauges.  A gauge is [Name, Source, Sum]    *)
(* (Count is always 1).                                                    *)
(***************************************************************************)
Gauge(name, source, sum) == [Name |-> name, Source |-> source, Sum |-> sum]

RECURSIVE SumAmounts(_)
SumAmounts(invoices) ==
    IF invoices = <<>> THEN 0 ELSE Head(invoices).TotalAmount + SumAmounts(Tail(invoices))

GetInvoicedTotal(pi) == SumAmounts(pi.Invoices)

ProjectKpi_RegisterMetrics(pi) ==
    LET prjName == sanitizeMetricName(pi.Name)
        base == <<libratoBaseName, ".", libratoCatProjects, ".">>
    IN  << Gauge(base \o <<"UnbillableMinutes">>, prjName, pi.UnbillableMinutes),
           Gauge(base \o <<"BillableMinutes">>, prjName, pi.BillableMinutes),
           Gauge(base \o <<"InvoicedMinutes">>, prjName, pi.InvoicedMinutes),
           Gauge(base \o <<"InvoicedAmount">>, prjName, GetInvoicedTotal(pi)) >>

ParticipantKpi_RegisterMetrics(p, prefix, source) ==
    LET src == sanitizeMetricName(source)
    IN  << Gauge(prefix \o <<".", "UnbillableMinutes", ".">> \o p.User.FirstName \o <<"-">> \o p.User.LastName,
                 src, p.UnbillableMinutes),
           Gauge(prefix \o <<".", "BillableMinutes", ".">> \o p.User.FirstName \o <<"-">> \o p.User.LastName,
                 src, p.BillableMinutes) >>

RECURSIVE SumBillable(_)
SumBillable(ps) == IF ps = <<>> THEN 0 ELSE Head(ps).BillableMinutes + SumBillable(Tail(ps))

RECURSIVE SumUnbillable(_)
SumUnbillable(ps) == IF ps = <<>> THEN 0 ELSE Head(ps).UnbillableMinutes + SumUnbillable(Tail(ps))

ProjectPeriodKpi_RegisterMetrics(pp, prefix) ==
    LET prjName == sanitizeMetricName(pp.Name)
        source == GetString(pp.TimeAgg, pp.Period)
    IN  << Gauge(prefix \o <<".", "InvoicedAmount", ".">> \o prjName, source, pp.Invoice.Amount),
           Gauge(prefix \o <<".", "UnbillableMinutes", ".">> \o prjName, source, SumUnbillable(pp.Participants)),
           Gauge(prefix \o <<".", "BillableMinutes", ".">> \o prjName, source, SumBillable(pp.Participants)) >>

(***************************************************************************)
(* Inputs of the library calls.                                            *)
(***************************************************************************)
Alphabet == {"a", " ", "/", "\\", "#", "(", ")", "-"}

Forbidden == {" ", "/", "\\", "#", "(", ")"}

MetricNames == SeqsUpTo(Alphabet, MaxNameLen)

ShortNames == SeqsUpTo(Alphabet, 1)

Alice == [Id |-> 1, FirstName |-> <<"a">>, LastName |-> <<"l">>]
Bob == [Id |-> 2, FirstName |-> <<"b">>, LastName |-> <<"o">>]
Carol == [Id |-> 3, FirstName |-> <<"c">>, LastName |-> <<"a">>]

Date20151231 == <<"2", "0", "1", "5", "-", "1", "2", "-", "3", "1">>
Date20160105 == <<"2", "0", "1", "6", "-", "0", "1", "-", "0", "5">>
Date20160210 == <<"2", "0", "1", "6", "-", "0", "2", "-", "1", "0">>
Date20160230 == <<"2", "0", "1", "6", "-", "0", "2", "-", "3", "0">>

\* a date in another layout, 05/01/2016
DateSlashes == <<"0", "5", "/", "0", "1", "/", "2", "0", "1", "6">>

DateStrings == {Date20151231, Date20160105, Date20160210, Date20160230, DateSlashes}

Entry(user, date, minutes, billable) ==
    [User |-> user, Date |-> date, Minutes |-> minutes, Billable |-> billable]

Invoice(date, amount) == [InvoiceDate |-> date, TotalAmount |-> amount]

\* entries of three participants on one day
DayEntries ==
    {Entry(u, Date20160105, mn, b) : u \in {Alice, Bob, Carol}, mn \in {30, 60}, b \in BOOLEAN}

\* entries of two participants over the dates
DatedEntries ==
    {Entry(u, d, x[1], x[2]) : u \in {Alice, Bob}, d \in DateStrings,
                               x \in {<<30, TRUE>>, <<60, FALSE>>, <<60, TRUE>>}}

JoinEntries ==
    {Entry(Alice, d, 30, TRUE) : d \in DateStrings} \cup {Entry(Bob, d, 60, FALSE) : d \in DateStrings}

DatedInvoices == {Invoice(d, a) : d \in DateStrings, a \in {100, 250}}

JoinInvoices == {Invoice(d, 100) : d \in DateStrings}

TimeAggs == {"MonthAgg", "YearAgg"}

\* years of one to four digits, every month, a first and a late day of the month
Years == {0, 999, 1000} \cup (2015 .. (2015 + MaxYearSpan))

Instants == {[y |-> y, m |-> m, d |-> d] : y \in Years, m \in 1..12, d \in {1, 28}}

NoCall == [fn |-> "none"]

ProjectKpi(project, entries) ==
    [Id |-> project.Id, Name |-> project.Name,
     BillableMinutes |-> project.BillableMinutes,
     UnbillableMinutes |-> project.UnbillableMinutes,
     InvoicedMinutes |-> project.InvoicedMinutes,
     Invoices |-> project.Invoices,
     DetailedEntries |-> entries]

Project(id, name, invoices) ==
    [Id |-> id, Name |-> name, BillableMinutes |-> 90, UnbillableMinutes |-> 30,
     InvoicedMinutes |-> 60, Invoices |-> invoices]

(***************************************************************************)
(* The library specification: one call of one function, its arguments      *)
(* drawn from the sets above.                                              *)
(***************************************************************************)
LibInit ==
    /\ pc = "lib"
    /\ env = <<>>
    /\ stopWhenZero = 0
    /\ idx = 0
    /\ projects = <<>>
    /\ out = <<>>
    /\ msgs = <<>>
    /\ metrics = <<>>
    /\ calls = <<>>
    /\ posts = 0
    /\ exitCode = -1
    /\ call = NoCall
    /\ ret = <<>>

LibFrame == UNCHANGED <<env, stopWhenZero, idx, projects, out, msgs, calls, posts, exitCode>>

CallGetParticipantKpis ==
    /\ pc = "lib"
    /\ \E fes \in SeqsUpTo(DayEntries, MaxEntries) :
         \E r \in GetParticipantKpis(fes) :
            /\ call' = [fn |-> "GetParticipantKpis", fes |-> fes]
            /\ ret' = r
    /\ pc' = "returned"
    /\ UNCHANGED metrics
    /\ LibFrame

CallGetInvoiceKpiPerPeriod ==
    /\ pc = "lib"
    /\ \E tagg \in TimeAggs, fis \in SeqsUpTo(DatedInvoices, MaxInvoices) :
            /\ call' = [fn |-> "GetInvoiceKpiPerPeriod", tagg |-> tagg, fis |-> fis]
            /\ ret' = GetInvoiceKpiPerPeriod(tagg, fis)
    /\ pc' = "returned"
    /\ UNCHANGED metrics
    /\ LibFrame

CallGetParticipantsPeriodPerPeriod ==
    /\ pc = "lib"
    /\ \E tagg \in TimeAggs, fes \in SeqsUpTo(DatedEntries, MaxPeriodEntries) :
         \E r \in GetParticipantsPeriodPerPeriod(tagg, fes) :
            /\ call' = [fn |-> "GetParticipantsPeriodPerPeriod", tagg |-> tagg, fes |-> fes]
            /\ ret' = r
    /\ pc' = "returned"
    /\ UNCHANGED metrics
    /\ LibFrame

CallGetProjectKpiPerPeriod ==
    /\ pc = "lib"
    /\ \E tagg \in TimeAggs, fis \in SeqsUpTo(JoinInvoices, MaxJoinInvoices),
          fes \in SeqsUpTo(JoinEntries, MaxJoinEntries) :
         \E r \in GetProjectKpiPerPeriod(tagg, ProjectKpi(Project(1, <<"a">>, fis), fes)) :
            /\ call' = [fn |-> "GetProjectKpiPerPeriod", tagg |-> tagg, fis |-> fis, fes |-> fes]
            /\ ret' = r
    /\ pc' = "returned"
    /\ UNCHANGED metrics
    /\ LibFrame

CallProjectRegisterMetrics ==
    /\ pc = "lib"
    /\ \E name \in MetricNames :
         LET pi == ProjectKpi(Project(1, name, <<Invoice(Date20160105, 100)>>), <<>>)
         IN  /\ call' = [fn |-> "ProjectKpi.RegisterMetrics", pi |-> pi]
             /\ metrics' = metrics \o ProjectKpi_RegisterMetrics(pi)
    /\ pc' = "returned"
    /\ UNCHANGED ret
    /\ LibFrame

CallParticipantRegisterMetrics ==
    /\ pc = "lib"
    /\ \E first \in ShortNames, last \in ShortNames, source \in MetricNames :
         LET p == NewParticipantKpi([Id |-> 1, FirstName |-> first, LastName |-> last], 60, 30)
             prefix == <<libratoBaseName, ".", libratoCatParticipants>>
         IN  /\ call' = [fn |-> "ParticipantKpi.RegisterMetrics", p |-> p, source |-> source]
             /\ metrics' = metrics \o ParticipantKpi_RegisterMetrics(p, prefix, source)
    /\ pc' = "returned"
    /\ UNCHANGED ret
    /\ LibFrame

CallPeriodRegisterMetrics ==
    /\ pc = "lib"
    /\ \E name \in MetricNames, tagg \in TimeAggs :
         LET pp == [Name |-> name, TimeAgg |-> tagg, Period |-> GetPeriod(tagg, [y |-> 2016, m |-> 2, d |-> 10]),
                    Invoice |-> ZeroInvoicePeriodKpi,
                    Participants |-> <<NewParticipantKpi(Alice, 60, 30)>>]
             prefix == <<libratoBaseName, ".", libratoCatYearlyParticipants>>
         IN  /\ call' = [fn |-> "ProjectPeriodKpi.RegisterMetrics", pp |-> pp]
             /\ metrics' = metrics \o ProjectPeriodKpi_RegisterMetrics(pp, prefix)
    /\ pc' = "returned"
    /\ UNCHANGED ret
    /\ LibFrame

\* the three aggregation functions of src/main.go
CallMainGoGetInvoiceKpiPerMonth ==
    /\ pc = "lib"
    /\ \E fis \in SeqsUpTo(JoinInvoices, MaxInvoices) :
            /\ call' = [fn |-> "MainGo_GetInvoiceKpiPerMonth", tagg |-> "MonthAgg", fis |-> fis]
            /\ ret' = MainGo_GetInvoiceKpiPerMonth(fis)
    /\ pc' = "returned"
    /\ UNCHANGED metrics
    /\ LibFrame

CallMainGoGetParticipantsPeriodPerMonth ==
    /\ pc = "lib"
    /\ \E fes \in SeqsUpTo(JoinEntries, MaxPeriodEntries) :
         \E r \in MainGo_GetParticipantsPeriodPerMonth(fes) :
            /\ call' = [fn |-> "MainGo_GetParticipantsPeriodPerMonth", tagg |-> "MonthAgg", fes |-> fes]
            /\ ret' = r
    /\ pc' = "returned"
    /\ UNCHANGED metrics
    /\ LibFrame

CallMainGoGetProjectKpiPerMonth ==
    /\ pc = "lib"
    /\ \E fis \in SeqsUpTo(JoinInvoices, MaxJoinInvoices),
          fes \in SeqsUpTo(JoinEntries, MaxJoinEntries) :
         \E r \in MainGo_GetProjectKpiPerMonth(ProjectKpi(Project(1, <<"a">>, fis), fes)) :
            /\ call' = [fn |-> "MainGo_GetProjectKpiPerMonth", tagg |-> "MonthAgg",
                        fis |-> fis, fes |-> fes]
            /\ ret' = r
    /\ pc' = "returned"
    /\ UNCHANGED metrics
    /\ LibFrame

\* two instants compared by their keys under the same TimeAggregater
CallGetInt ==
    /\ pc = "lib"
    /\ \E tagg \in TimeAggs, t1 \in Instants, t2 \in Instants :
            /\ call' = [fn |-> "GetInt", tagg |-> tagg, t1 |-> t1, t2 |-> t2]
            /\ ret' = <<GetInt(tagg, t1), GetInt(tagg, t2)>>
    /\ pc' = "returned"
    /\ UNCHANGED metrics
    /\ LibFrame

CallSanitizeMetricName ==
    /\ pc = "lib"
    /\ \E s \in SeqsUpTo(Alphabet, MaxSanitizeLen) :
            /\ call' = [fn |-> "sanitizeMetricName", s |-> s]
            /\ ret' = sanitizeMetricName(s)
    /\ pc' = "returned"
    /\ UNCHANGED metrics
    /\ LibFrame

LibNext ==
    \/ CallGetInt
    \/ CallSanitizeMetricName
    \/ CallMainGoGetInvoiceKpiPerMonth
    \/ CallMainGoGetParticipantsPeriodPerMonth
    \/ CallMainGoGetProjectKpiPerMonth
    \/ CallGetParticipantKpis
    \/ CallGetInvoiceKpiPerPeriod
    \/ CallGetParticipantsPeriodPerPeriod
    \/ CallGetProjectKpiPerPeriod
    \/ CallProjectRegisterMetrics
    \/ CallParticipantRegisterMetrics
    \/ CallPeriodRegisterMetrics

LibSpec == LibInit /\ [][LibNext]_vars

(***************************************************************************)
(* main.  A run is started with env: the flags and arguments flag.Parse    *)
(* reads, the environment variables, and what the Freckle API answers      *)
(* (the project listing, and for the project at each position of the       *)
(* listing the answer of GetEntries).                                      *)
(***************************************************************************)
NameA == <<"a">>
NameB == <<"b">>
NameC == <<"c">>
NameSpecial == <<"b", " ", "(">>

ProjectNames == {NameA, NameB, NameC}

EntriesAnswer(err, entries) == [err |-> err, entries |-> entries]

\* a listed project and the answer to GetEntries for it
Listed(name, invoices, answer) == [name |-> name, invoices |-> invoices, answer |-> answer]

PlainListed == {Listed(n, <<>>, EntriesAnswer(FALSE, <<Entry(Alice, Date20160105, 30, TRUE)>>)) : n \in ProjectNames}

Fixtures ==
    { Listed(NameA, <<Invoice(Date20160105, 100), Invoice(Date20151231, 250)>>,
             EntriesAnswer(FALSE, <<Entry(Alice, Date20160105, 30, TRUE), Entry(Bob, Date20160210, 60, FALSE)>>)),
      Listed(NameSpecial, <<>>, EntriesAnswer(FALSE, <<>>)),
      Listed(NameA, <<>>, EntriesAnswer(TRUE, <<>>)),
      Listed(NameSpecial, <<Invoice(Date20160230, 100)>>,
             EntriesAnswer(FALSE, <<Entry(Alice, Date20160105, 30, TRUE)>>)) }

Flags == [period : {"month", "year", "week"}, librato : BOOLEAN]

Environ == [token : {"", "t"}, account : {"", "a"}, ltoken : {"", "k"}]

Env(flags, args, environ, listErr, listed) ==
    [period |-> flags.period, librato |-> flags.librato, projectNames |-> args,
     token |-> environ.token, account |-> environ.account, ltoken |-> environ.ltoken,
     listErr |-> listErr,
     listing |-> [i \in DOMAIN listed |-> Project(i, listed[i].name, listed[i].invoices)],
     entries |-> [i \in DOMAIN listed |-> listed[i].answer]]

\* runs that vary the filter and the listing
SelectionEnvs ==
    {Env([period |-> pd, librato |-> TRUE], args, [token |-> "t", account |-> "a", ltoken |-> "k"], FALSE, listed) :
        pd \in {"year", "week"},
        args \in SeqsUpTo(ProjectNames, MaxFilter),
        listed \in SeqsUpTo(PlainListed, MaxListed)}

\* runs that vary the flags, the environment and the data
DataEnvs ==
    {Env(flags, args, environ, listErr, listed) :
        flags \in Flags, environ \in Environ, listErr \in BOOLEAN,
        args \in SeqsUpTo({NameA, NameSpecial}, MaxArgs),
        listed \in SeqsUpTo(Fixtures, MaxFixtures)}

Init ==
    /\ pc = "start"
    /\ env \in SelectionEnvs \cup DataEnvs
    /\ stopWhenZero = 0
    /\ idx = 0
    /\ projects = <<>>
    /\ out = <<>>
    /\ msgs = <<>>
    /\ metrics = <<>>
    /\ calls = <<>>
    /\ posts = 0
    /\ exitCode = -1
    /\ call = NoCall
    /\ ret = <<>>

Exit(code) == exitCode' = code /\ pc' = "exited"

\* flag.Parse and the check of FRECKLE_APP_TOKEN
Start ==
    /\ pc = "start"
    /\ IF env.token = ""
       THEN /\ msgs' = Append(msgs, "token not set")
            /\ Exit(exitCodeNotOk)
       ELSE /\ pc' = "list"
            /\ UNCHANGED <<msgs, exitCode>>
    /\ UNCHANGED <<env, stopWhenZero, idx, projects, out, metrics, calls, posts, call, ret>>

\* the client, the Librato variables, ListProjects and the filter arguments
ListProjects ==
    /\ pc = "list"
    /\ calls' = Append(calls, [op |-> "ListProjects", id |-> 0])
    /\ msgs' = IF env.listErr THEN Append(msgs, "project list error") ELSE msgs
    /\ stopWhenZero' = Len(env.projectNames)
    /\ idx' = 1
    /\ pc' = "select"
    /\ UNCHANGED <<env, projects, out, metrics, posts, exitCode, call, ret>>

\* the number of filter names equal to the project's name
Matches(projectNames, name) == Cardinality({i \in DOMAIN projectNames : projectNames[i] = name})

\* what one pass of the listing loop decides before it fetches: skip the project
\* (continue), leave the loop (break), or fetch its entries
Decide(projectNames, stop, name) ==
    IF Len(projectNames) > 0 /\ stop > 0
    THEN IF Matches(projectNames, name) = 0 THEN "continue" ELSE "fetch"
    ELSE IF Len(projectNames) > 0 /\ stop = 0 THEN "break" ELSE "fetch"

\* one pass of the loop over projectsPage.AllProjects(), or its end
SelectProject ==
    /\ pc = "select"
    /\ IF idx > Len(env.listing)
       THEN /\ pc' = "report"
            /\ idx' = 1
            /\ UNCHANGED <<stopWhenZero, projects, msgs, calls, exitCode>>
       ELSE LET project == env.listing[idx]
                decision == Decide(env.projectNames, stopWhenZero, project.Name)
                answer == env.entries[idx]
            IN  /\ stopWhenZero' =
                      IF Len(env.projectNames) > 0 /\ stopWhenZero > 0
                      THEN stopWhenZero - Matches(env.projectNames, project.Name)
                      ELSE stopWhenZero
                /\ IF decision = "continue"
                   THEN /\ idx' = idx + 1
                        /\ UNCHANGED <<pc, projects, msgs, calls, exitCode>>
                   ELSE IF decision = "break"
                   THEN /\ pc' = "report"
                        /\ idx' = 1
                        /\ UNCHANGED <<projects, msgs, calls, exitCode>>
                   ELSE /\ calls' = Append(calls, [op |-> "GetEntries", id |-> project.Id])
                        /\ IF answer.err
                           THEN /\ msgs' = Append(msgs, "fatal")
                                /\ Exit(exitCodeNotOk)
                                /\ UNCHANGED <<idx, projects>>
                           ELSE /\ projects' = Append(projects, ProjectKpi(project, answer.entries))
                                /\ idx' = idx + 1
                                /\ UNCHANGED <<pc, msgs, exitCode>>
    /\ UNCHANGED <<env, out, metrics, posts, call, ret>>

\* printed lines; id tags the line with the project it reports on
Line(kind, id, text) == [kind |-> kind, id |-> id, text |-> text]

ParticipantLines(kind, id, ps) == [i \in DOMAIN ps |-> Line(kind, id, ps[i].User.Id)]

RECURSIVE ParticipantGauges(_, _)
ParticipantGauges(ps, source) ==
    IF ps = <<>> THEN <<>>
    ELSE ParticipantKpi_RegisterMetrics(Head(ps), <<libratoBaseName, ".", libratoCatParticipants>>, source)
             \o ParticipantGauges(Tail(ps), source)

RECURSIVE PeriodLines(_, _)
PeriodLines(id, ppms) ==
    IF ppms = <<>> THEN <<>>
    ELSE <<Line("period", id, GetString(Head(ppms).TimeAgg, Head(ppms).Period))>>
             \o ParticipantLines("period participant", id, Head(ppms).Participants)
             \o PeriodLines(id, Tail(ppms))

RECURSIVE PeriodGauges(_)
PeriodGauges(ppms) ==
    IF ppms = <<>> THEN <<>>
    ELSE ProjectPeriodKpi_RegisterMetrics(Head(ppms), <<libratoBaseName, ".", libratoCatYearlyParticipants>>)
             \o PeriodGauges(Tail(ppms))

\* the gauges registered for the periods under each value of --period
MonthGauges(ppms) == <<>>

YearGauges(ppms) == PeriodGauges(ppms)

\* one pass of the loop over projects, or its end
ReportProject ==
    /\ pc = "report"
    /\ IF idx > Len(projects)
       THEN /\ pc' = "post"
            /\ UNCHANGED <<idx, out, msgs, metrics, exitCode>>
       ELSE LET project == projects[idx]
            IN  \E pks \in GetParticipantKpis(project.DetailedEntries) :
                  LET out1 == out \o <<Line("project", project.Id, project.Name)>>
                                  \o ParticipantLines("participant", project.Id, pks)
                      metrics1 == metrics \o ProjectKpi_RegisterMetrics(project)
                                          \o ParticipantGauges(pks, project.Name)
                  IN  IF env.period \in {"month", "year"}
                      THEN \E r \in (IF env.period = "month" THEN GetProjectKpiPerMonth(project)
                                                           ELSE GetProjectKpiPerYear(project)) :
                             IF r.err
                             THEN /\ out' = out1
                                  /\ metrics' = metrics1
                                  /\ msgs' = Append(msgs, "fatal")
                                  /\ Exit(exitCodeNotOk)
                                  /\ UNCHANGED idx
                             ELSE /\ out' = out1 \o <<Line("breakdown", project.Id, env.period)>>
                                                 \o PeriodLines(project.Id, r.val)
                                  /\ metrics' = metrics1 \o (IF env.period = "month" THEN MonthGauges(r.val)
                                                                                    ELSE YearGauges(r.val))
                                  /\ idx' = idx + 1
                                  /\ UNCHANGED <<pc, msgs, exitCode>>
                      ELSE /\ out' = out1
                           /\ metrics' = metrics1
                           /\ msgs' = Append(msgs, "not a valid choice")
                           /\ Exit(exitCodeNotOk)
                           /\ UNCHANGED idx
    /\ UNCHANGED <<env, stopWhenZero, projects, calls, posts, call, ret>>

\* faulty variant: the --librato flag is not consulted
ShouldPost_EnvOnly(libratoFlag, libratoAccount, libratoToken) ==
    libratoAccount # "" /\ libratoToken # ""

ShouldPost(libratoFlag, libratoAccount, libratoToken) ==
    libratoFlag /\ libratoAccount # "" /\ libratoToken # ""

\* the report to Librato and the return of main
PostMetrics ==
    /\ pc = "post"
    /\ IF ShouldPost(env.librato, env.account, env.ltoken)
       THEN /\ posts' = posts + 1
            /\ \E err \in BOOLEAN :
                 msgs' = IF err THEN Append(msgs, "librato error") ELSE msgs
       ELSE UNCHANGED <<posts, msgs>>
    /\ exitCode' = exitCodeOk
    /\ pc' = "done"
    /\ UNCHANGED <<env, stopWhenZero, idx, projects, out, metrics, calls, call, ret>>

Next ==
    \/ Start
    \/ ListProjects
    \/ SelectProject
    \/ ReportProject
    \/ PostMetrics

Spec == Init /\ [][Next]_vars


(***************************************************************************)
(* Claims about main, checked under Spec.                                  *)
(***************************************************************************)
Finished == pc \in {"done", "exited"}

InFilter(name) == \E i \in DOMAIN env.projectNames : env.projectNames[i] = name

Selected(project) == env.projectNames = <<>> \/ InFilter(project.Name)

ValidPeriod == env.period \in {"month", "year"}

LastMsg == IF msgs = <<>> THEN "" ELSE msgs[Len(msgs)]

ConfigError == pc = "exited" /\ LastMsg \in {"token not set", "not a valid choice"}

ReportsOf(id) == {i \in DOMAIN out : out[i].kind = "project" /\ out[i].id = id}

\* C1: with a non-empty filter list, every project main fetches entries for and
\* reports has a name that is in the filter list, whatever the listing (projects
\* may share a name) and the filter (a name may be repeated).
C1_OnlyFilteredProjects ==
    env.projectNames # <<>> =>
        /\ \A i \in DOMAIN projects : InFilter(projects[i].Name)
        /\ \A i \in DOMAIN calls :
              calls[i].op = "GetEntries" => InFilter(env.listing[calls[i].id].Name)
        /\ \A i \in DOMAIN out : InFilter(env.listing[out[i].id].Name)

\* C2: in a run that ends normally, every listed project whose name matches the
\* filter (every listed project when the filter is empty) is selected once and
\* gets exactly one report, whatever its position in the listing.
C2_EveryMatchReportedOnce ==
    (pc = "done" /\ ValidPeriod) =>
        \A i \in DOMAIN env.listing :
            Selected(env.listing[i]) =>
                /\ Cardinality({j \in DOMAIN projects : projects[j].Id = i}) = 1
                /\ Cardinality(ReportsOf(i)) = 1

\* C3: a run started with a --period other than month or year ends with a
\* non-zero exit status, whatever the listing and the filter.
C3_InvalidPeriodFails ==
    (Finished /\ ~ValidPeriod) => exitCode # exitCodeOk

\* C4: when the run exits on a configuration error (token missing, --period
\* invalid), no request has been issued to the API, no report line has been
\* printed and no gauge has been registered.
C4_NoWorkBeforeConfigError ==
    ConfigError => calls = <<>> /\ out = <<>> /\ metrics = <<>>

\* C5: PostMetrics is called only if --librato is set and LIBRATO_ACCOUNT and
\* LIBRATO_TOKEN are both non-empty, never more than once in a run, and an
\* error of the submission leaves the exit status at 0.
C5_PostOnlyWhenConfigured ==
    /\ posts <= 1
    /\ posts > 0 => (env.librato /\ env.account # "" /\ env.ltoken # "")
    /\ (posts > 0 /\ Finished) => exitCode = exitCodeOk
    /\ LastMsg = "librato error" => (posts = 1 /\ pc = "done" /\ exitCode = exitCodeOk)

\* a submission that failed, after a report was printed
C5_Witness ==
    /\ pc = "done"
    /\ posts = 1
    /\ LastMsg = "librato error"
    /\ out # <<>>
    /\ exitCode = exitCodeOk

\* the name of the reported project with this id
NameOfId(id) == projects[CHOOSE j \in DOMAIN projects : projects[j].Id = id].Name

HasToken(str, tok) == \E i \in DOMAIN str : str[i] = tok

EndsWith(str, suffix) ==
    /\ Len(str) >= Len(suffix)
    /\ SubSeq(str, Len(str) - Len(suffix) + 1, Len(str)) = suffix

\* a gauge of this measure for this project, with the period label as its Source
PeriodGauge(measure, name, label) ==
    \E j \in DOMAIN metrics :
        /\ metrics[j].Source = label
        /\ HasToken(metrics[j].Name, measure)
        /\ EndsWith(metrics[j].Name, sanitizeMetricName(name))

\* C17: for every reported project and every period printed in its breakdown,
\* the metrics built during the run hold the per-period gauges (invoiced amount,
\* billable minutes, unbillable minutes) with the period label as source, under
\* --period month as well as under --period year.
C17_PeriodsExported ==
    \A i \in DOMAIN out :
        out[i].kind = "period" =>
            \A measure \in {"InvoicedAmount", "BillableMinutes", "UnbillableMinutes"} :
                PeriodGauge(measure, NameOfId(out[i].id), out[i].text)

\* the same under --period year alone
YearPeriodsExported == env.period = "year" => C17_PeriodsExported

\* a finished run by year that printed two periods with their gauges
YearPeriodsExported_Reached ==
    /\ pc = "done"
    /\ env.period = "year"
    /\ Cardinality({i \in DOMAIN out : out[i].kind = "period"}) >= 2
    /\ C17_PeriodsExported

(***************************************************************************)
(* Claims about the gauges, checked under LibSpec.                         *)
(***************************************************************************)
Clean(str) == \A i \in DOMAIN str : str[i] \notin Forbidden

\* C6: no gauge appended by the three RegisterMetrics has in its Name or Source
\* a space, /, \, #, ( or ) of a project or participant name: every such string
\* goes through sanitizeMetricName first.
C6_GaugesSanitized ==
    \A i \in DOMAIN metrics : Clean(metrics[i].Name) /\ Clean(metrics[i].Source)


(***************************************************************************)
(* Claims about the aggregation functions, checked under LibSpec.          *)
(***************************************************************************)
Returned(fn) == pc = "returned" /\ call.fn = fn

Total(p) == p.BillableMinutes + p.UnbillableMinutes

SortedDescending(ps) == \A i, j \in DOMAIN ps : i < j => Total(ps[i]) >= Total(ps[j])

RECURSIVE MinutesOf(_, _)
MinutesOf(fes, billable) ==
    IF fes = <<>> THEN 0
    ELSE (IF Head(fes).Billable = billable THEN Head(fes).Minutes ELSE 0) + MinutesOf(Tail(fes), billable)

KeyOfDate(tagg, date) == GetInt(tagg, TimeParse(date).t)

PeriodKeys(r) == [i \in DOMAIN r |-> GetInt(call.tagg, r[i].Period)]

StrictlyAscending(ks) == \A i, j \in DOMAIN ks : i < j => ks[i] < ks[j]

\* C7: GetParticipantKpis returns one summary per distinct participant id of the
\* input; the billable minutes of the summaries add up to the minutes of the
\* billable entries and the unbillable minutes to those of the other entries;
\* an empty input gives an empty result.
C7_ParticipantTotals ==
    Returned("GetParticipantKpis") =>
        /\ {ret[i].User.Id : i \in DOMAIN ret} = {call.fes[i].User.Id : i \in DOMAIN call.fes}
        /\ \A i, j \in DOMAIN ret : ret[i].User.Id = ret[j].User.Id => i = j
        /\ SumBillable(ret) = MinutesOf(call.fes, TRUE)
        /\ SumUnbillable(ret) = MinutesOf(call.fes, FALSE)
        /\ (call.fes = <<>> => ret = <<>>)

C7_Witness ==
    /\ Returned("GetParticipantKpis")
    /\ Len(call.fes) = 3
    /\ Len(ret) = 2
    /\ \E i \in DOMAIN ret : ret[i].BillableMinutes = 90 /\ ret[i].UnbillableMinutes = 0
    /\ \E i \in DOMAIN ret : ret[i].BillableMinutes = 0 /\ ret[i].UnbillableMinutes = 60

\* C8: the participants returned by GetParticipantKpis, and the Participants of
\* every period returned by GetParticipantsPeriodPerPeriod and by
\* GetProjectKpiPerPeriod, are sorted descending by billable + unbillable minutes.
C8_SortedByTotalMinutes ==
    /\ Returned("GetParticipantKpis") => SortedDescending(ret)
    /\ Returned("GetParticipantsPeriodPerPeriod") =>
           \A k \in DOMAIN ret.val : SortedDescending(ret.val[k].Participants)
    /\ Returned("GetProjectKpiPerPeriod") =>
           \A k \in DOMAIN ret.val : SortedDescending(ret.val[k].Participants)

\* the first participant entered in a period ends behind a later one
C8_Witness ==
    /\ Returned("GetParticipantsPeriodPerPeriod")
    /\ Len(call.fes) = 2
    /\ call.fes[1].User.Id = 1 /\ call.fes[1].Minutes = 30
    /\ call.fes[2].User.Id = 2 /\ call.fes[2].Minutes = 60
    /\ Len(ret.val) = 1
    /\ Len(ret.val[1].Participants) = 2
    /\ ret.val[1].Participants[1].User.Id = 2

\* C9: GetProjectKpiPerPeriod is a full outer join on the period key: the keys of
\* its result are the keys of the invoices and of the entries together, each key
\* once; a period with invoices only has no participants, a period with entries
\* only has an invoice amount of 0.
C9_OuterJoin ==
    (Returned("GetProjectKpiPerPeriod") /\ ~ret.err) =>
        LET invKeys == {KeyOfDate(call.tagg, call.fis[i].InvoiceDate) : i \in DOMAIN call.fis}
            entKeys == {KeyOfDate(call.tagg, call.fes[i].Date) : i \in DOMAIN call.fes}
            keys == PeriodKeys(ret.val)
        IN  /\ Range(keys) = invKeys \cup entKeys
            /\ \A i, j \in DOMAIN keys : keys[i] = keys[j] => i = j
            /\ \A i \in DOMAIN keys :
                 /\ keys[i] \notin entKeys => ret.val[i].Participants = <<>>
                 /\ keys[i] \notin invKeys => ret.val[i].Invoice.Amount = 0

\* one period has only an invoice, another only entries
C9_Witness ==
    /\ Returned("GetProjectKpiPerPeriod")
    /\ ~ret.err
    /\ Len(ret.val) = 2
    /\ ret.val[1].Participants = <<>> /\ ret.val[1].Invoice.Amount = 100
    /\ ret.val[2].Participants # <<>> /\ ret.val[2].Invoice.Amount = 0

\* C10: the sequences returned by GetInvoiceKpiPerPeriod and GetProjectKpiPerPeriod
\* are strictly ascending by period key, in whatever order the invoices and the
\* entries arrive.
C10_AscendingPeriods ==
    /\ (Returned("GetInvoiceKpiPerPeriod") /\ ~ret.err) => StrictlyAscending(PeriodKeys(ret.val))
    /\ (Returned("GetProjectKpiPerPeriod") /\ ~ret.err) => StrictlyAscending(PeriodKeys(ret.val))

\* the records arrive newest first: entries of 2016-02 then 2016-01, an invoice of 2015-12
C10_Witness ==
    /\ Returned("GetProjectKpiPerPeriod")
    /\ call.tagg = "MonthAgg"
    /\ Len(call.fes) = 2 /\ Len(call.fis) = 1
    /\ call.fes[1].Date = Date20160210
    /\ call.fes[2].Date = Date20160105
    /\ call.fis[1].InvoiceDate = Date20151231
    /\ ~ret.err
    /\ PeriodKeys(ret.val) = <<201512, 201601, 201602>>

\* a date lies in the calendar month (MonthAgg) or calendar year (YearAgg) that period starts
InPeriod(tagg, t, period) == t.y = period.y /\ (tagg = "MonthAgg" => t.m = period.m)

RECURSIVE AmountIn(_, _, _)
AmountIn(tagg, fis, period) ==
    IF fis = <<>> THEN 0
    ELSE (IF InPeriod(tagg, TimeParse(Head(fis).InvoiceDate).t, period)
          THEN Head(fis).TotalAmount ELSE 0) + AmountIn(tagg, Tail(fis), period)

RECURSIVE SumPeriodAmounts(_)
SumPeriodAmounts(iks) == IF iks = <<>> THEN 0 ELSE Head(iks).Amount + SumPeriodAmounts(Tail(iks))

\* C11: for invoices with parseable dates, every InvoicePeriodKpi returned by
\* GetInvoiceKpiPerPeriod carries the sum of TotalAmount of exactly the invoices
\* dated in its period, so the amounts of the periods add up to
\* ProjectKpi.GetInvoicedTotal(); no invoices give an empty result and a total of 0.
C11_InvoiceTotals ==
    (Returned("GetInvoiceKpiPerPeriod") /\ ~ret.err) =>
        /\ \A i \in DOMAIN ret.val :
              ret.val[i].Amount = AmountIn(call.tagg, call.fis, ret.val[i].Period)
        /\ SumPeriodAmounts(ret.val) = GetInvoicedTotal(ProjectKpi(Project(1, <<"a">>, call.fis), <<>>))
        /\ (call.fis = <<>> => ret.val = <<>> /\ SumPeriodAmounts(ret.val) = 0)

\* three invoices of two years, by year: 2015 with 100, 2016 with 100 + 250
C11_Witness ==
    /\ Returned("GetInvoiceKpiPerPeriod")
    /\ call.tagg = "YearAgg"
    /\ call.fis = <<Invoice(Date20160105, 100), Invoice(Date20151231, 100), Invoice(Date20160210, 250)>>
    /\ ~ret.err
    /\ Len(ret.val) = 2
    /\ ret.val[1].Amount = 100
    /\ ret.val[2].Amount = 350

\* the calendar bucket of t1 is the bucket of t2, or an earlier one
SameBucket(tagg, t1, t2) == t1.y = t2.y /\ (tagg = "MonthAgg" => t1.m = t2.m)

EarlierBucket(tagg, t1, t2) ==
    \/ t1.y < t2.y
    \/ tagg = "MonthAgg" /\ t1.y = t2.y /\ t1.m < t2.m

\* C12: GetInt is an order-preserving bucket function: under MonthAgg the key
\* is year * 100 + month, so two dates get the same key iff they lie in the same
\* calendar month of the same year; under YearAgg the key is the year, so they
\* get the same key iff they lie in the same year; a date in an earlier bucket
\* gets a strictly smaller key (December of Y before January of Y + 1).
C12_KeyOrderPreserving ==
    Returned("GetInt") =>
        /\ (ret[1] = ret[2]) <=> SameBucket(call.tagg, call.t1, call.t2)
        /\ EarlierBucket(call.tagg, call.t1, call.t2) => ret[1] < ret[2]
        /\ call.tagg = "MonthAgg" => ret[1] = call.t1.y * 100 + call.t1.m
        /\ call.tagg = "YearAgg" => ret[1] = call.t1.y

\* 2015-12-28 and 2016-01-01 by month: 201512 < 201601
C12_Witness ==
    /\ Returned("GetInt")
    /\ call.tagg = "MonthAgg"
    /\ call.t1 = [y |-> 2015, m |-> 12, d |-> 28]
    /\ call.t2 = [y |-> 2016, m |-> 1, d |-> 1]
    /\ ret = <<201512, 201601>>

\* the first day of the calendar month or year that holds t
PeriodStart(tagg, t) == [y |-> t.y, m |-> IF tagg = "MonthAgg" THEN t.m ELSE 1, d |-> 1]

\* the dates handed to the call: invoice dates, entry dates, or both
CallDates ==
    (IF "fis" \in DOMAIN call THEN {call.fis[i].InvoiceDate : i \in DOMAIN call.fis} ELSE {})
    \cup (IF "fes" \in DOMAIN call THEN {call.fes[i].Date : i \in DOMAIN call.fes} ELSE {})

PeriodFunctions ==
    {"GetInvoiceKpiPerPeriod", "GetParticipantsPeriodPerPeriod", "GetProjectKpiPerPeriod"}

MainGoPeriodFunctions ==
    {"MainGo_GetInvoiceKpiPerMonth", "MainGo_GetParticipantsPeriodPerMonth",
     "MainGo_GetProjectKpiPerMonth"}

\* the key the merge step and the label String() recompute from a stored Period
RecomputedKey(period) ==
    IF call.fn \in MainGoPeriodFunctions THEN MainGo_Key(period) ELSE GetInt(call.tagg, period)

RecomputedLabel(period) ==
    IF call.fn \in MainGoPeriodFunctions THEN MainGo_Label(period) ELSE GetString(call.tagg, period)

\* the stored Periods are the period starts of the dates, and the key and label
\* recomputed from a stored Period are those of the dates
PeriodsAreStarts ==
    ~ret.err =>
        LET times == {TimeParse(d).t : d \in CallDates}
            stored == {ret.val[i].Period : i \in DOMAIN ret.val}
        IN  /\ stored = {PeriodStart(call.tagg, t) : t \in times}
            /\ {RecomputedKey(p) : p \in stored} = {GetInt(call.tagg, t) : t \in times}
            /\ {RecomputedLabel(p) : p \in stored} = {GetString(call.tagg, t) : t \in times}

\* the month/year program alone
PeriodsAreStarts_MonthYear == (pc = "returned" /\ call.fn \in PeriodFunctions) => PeriodsAreStarts

\* C13: the Period stored in every InvoicePeriodKpi, ParticipantsPeriod and
\* ProjectPeriodKpi is the first day of the calendar month (or year) holding the
\* dates aggregated into it, so the key and the label recomputed from the stored
\* Period are those of the original dates; in the month-only program of
\* src/main.go as well as in the month/year program.
C13_PeriodIsPeriodStart ==
    (pc = "returned" /\ call.fn \in PeriodFunctions \cup MainGoPeriodFunctions) => PeriodsAreStarts

\* the dates of the pools that are dates in the layout 2006-01-02
WellFormedDates == {Date20151231, Date20160105, Date20160210}

\* C14: when the date of any invoice (GetInvoiceKpiPerPeriod,
\* GetProjectKpiPerPeriod) or of any entry (GetParticipantsPeriodPerPeriod,
\* GetProjectKpiPerPeriod) does not parse as YYYY-MM-DD, the function returns
\* the error and an empty (nil) result, never the aggregate of the other
\* records, whatever the position of the bad record.
C14_ParseErrorNoPartialResult ==
    (pc = "returned" /\ call.fn \in PeriodFunctions) =>
        /\ (CallDates \ WellFormedDates # {}) => (ret.err /\ ret.val = <<>>)
        /\ ret.err => ret.val = <<>>

\* a valid invoice and a valid entry, then an entry dated 2016-02-30
C14_Witness ==
    /\ Returned("GetProjectKpiPerPeriod")
    /\ call.fis = <<Invoice(Date20160105, 100)>>
    /\ call.fes = <<Entry(Alice, Date20160105, 30, TRUE), Entry(Bob, Date20160230, 60, FALSE)>>
    /\ ret.err
    /\ ret.val = <<>>

\* C15: sanitizeMetricName is idempotent: sanitizing its result again leaves it
\* unchanged, for every string over an alphabet that includes space, /, \, #,
\* (, ) and -; and its result holds none of space, /, \, #, ( and ).
C15_SanitizeIdempotent ==
    Returned("sanitizeMetricName") =>
        /\ sanitizeMetricName(ret) = ret
        /\ Clean(ret)

\* "a /" becomes "a--": a result that differs from the input
C15_Witness ==
    /\ Returned("sanitizeMetricName")
    /\ call.s = <<"a", " ", "/">>
    /\ ret = <<"a", "-", "-">>
    /\ sanitizeMetricName(ret) = ret

\* the entries dated in the calendar month or year that period starts, in input order
RECURSIVE EntriesIn(_, _, _)
EntriesIn(tagg, fes, period) ==
    IF fes = <<>> THEN <<>>
    ELSE (IF InPeriod(tagg, TimeParse(Head(fes).Date).t, period) THEN <<Head(fes)>> ELSE <<>>)
         \o EntriesIn(tagg, Tail(fes), period)

Summaries(ps) ==
    {<<ps[i].User.Id, ps[i].BillableMinutes, ps[i].UnbillableMinutes>> : i \in DOMAIN ps}

\* C16: for entries with parseable dates, the periods returned by
\* GetParticipantsPeriodPerPeriod are exactly the periods that hold an entry,
\* each once, and the participants of a period are, as a set of
\* (id, billable minutes, unbillable minutes), those GetParticipantKpis returns
\* for the entries of that period alone.
C16_PeriodParticipants ==
    (Returned("GetParticipantsPeriodPerPeriod") /\ ~ret.err) =>
        /\ {ret.val[i].Period : i \in DOMAIN ret.val}
              = {PeriodStart(call.tagg, TimeParse(call.fes[i].Date).t) : i \in DOMAIN call.fes}
        /\ \A i, j \in DOMAIN ret.val : ret.val[i].Period = ret.val[j].Period => i = j
        /\ \A i \in DOMAIN ret.val :
              \A r \in GetParticipantKpis(EntriesIn(call.tagg, call.fes, ret.val[i].Period)) :
                  /\ Summaries(ret.val[i].Participants) = Summaries(r)
                  /\ Len(ret.val[i].Participants) = Len(r)

\* one participant with 30 billable minutes in January and 60 unbillable in February
C16_Witness ==
    /\ Returned("GetParticipantsPeriodPerPeriod")
    /\ call.tagg = "MonthAgg"
    /\ call.fes = <<Entry(Alice, Date20160105, 30, TRUE), Entry(Alice, Date20160210, 60, FALSE)>>
    /\ ~ret.err
    /\ Len(ret.val) = 2
    /\ \E i \in DOMAIN ret.val :
          /\ ret.val[i].Period = [y |-> 2016, m |-> 1, d |-> 1]
          /\ Summaries(ret.val[i].Participants) = {<<1, 30, 0>>}
    /\ \E i \in DOMAIN ret.val :
          /\ ret.val[i].Period = [y |-> 2016, m |-> 2, d |-> 1]
          /\ Summaries(ret.val[i].Participants) = {<<1, 0, 60>>}

=============================================================================
